---- MODULE Spec2Model ----
(***************************************************************************)
(* Model of image-converter.py: one run of the converter, entered either   *)
(* through main() (the CLI) or through a direct call of resize_and_save(). *)
(* The collaborators (Pillow, pypdf, reportlab, pdf2image, the file        *)
(* system) are the environment: every call into them either succeeds or   *)
(* raises, chosen nondeterministically, except that reading an input file  *)
(* that does not exist always raises.                                      *)
(***************************************************************************)
EXTENDS Integers, Sequences, FiniteSets, TLC

(* ---------------- bounds of the model ---------------- *)
\* image sides 1..MaxDim are enumerated, plus the sizes in SpecialDims
MaxDim == 8
\* a PDF read by pypdf has 0..MaxPages pages
MaxPages == 2

(* ---------------- program constants ---------------- *)
\* side of the square canvas in pixels (1200 in lines 239-246, 252)
Target == 1200

SpecialDims == {400, 800, 1200, 5000}
Dims == (1..MaxDim) \cup SpecialDims
Modes == {"RGB", "RGBA", "L"}
Exts == {"pdf", "PDF", "png"}
OutKinds == {"tiff", "png", "pdf"}
FileStates == {"absent", "partial", "complete"}

\* pixel content of a freshly decoded bitmap, and of "no image" (None)
SrcContent == [converted |-> "no", resampled |-> FALSE, padded |-> FALSE]
NoImage == [width |-> 0, height |-> 0, mode |-> "none", content |-> SrcContent]
Images == [width : Dims, height : Dims, mode : Modes, content : {SrcContent}]

VARIABLES
    pc,                  \* position of the run in the code
    entry,               \* "main" (CLI) or "direct" (resize_and_save called)
    input_ext,           \* extension of input_path as typed
    preserve_vector,     \* --preserve-vector / preserve_vector
    pdf_only,            \* --pdf-only / pdf_only
    file_exists,         \* os.path.isfile(input_path)
    pdf2image_available, \* PDF2IMAGE_AVAILABLE
    pages,               \* len(pdf_reader.pages) once the PDF was read
    src_img,             \* the bitmap as decoded, before normalization
    img,                 \* the local img of resize_and_save
    new_size,            \* (new_width, new_height)
    offset,              \* paste offset
    resized_img,         \* the 1200x1200 canvas
    files,               \* state of the three output files
    temps,               \* temporary files that exist on disk
    calls,               \* components invoked so far
    result,              \* return value of resize_and_save
    exit_code            \* values returned by main (at most one)

vars == <<pc, entry, input_ext, preserve_vector, pdf_only, file_exists,
          pdf2image_available, pages, src_img, img, new_size, offset,
          resized_img, files, temps, calls, result, exit_code>>

inputs == <<entry, input_ext, preserve_vector, pdf_only, file_exists,
            pdf2image_available>>

(* ---------------- pure helpers ---------------- *)
\* str.lower() on the extension (line 203)
Lower(e) == IF e = "PDF" THEN "pdf" ELSE e

Max(a, b) == IF a > b THEN a ELSE b
Min(a, b) == IF a < b THEN a ELSE b

\* round-half-up of n/d for n >= 0, d > 0 (the spec's round())
Round(n, d) == (2 * n + d) \div (2 * d)

\* variant of MainRejects: the flag check of main is left out
MainRejects_NoCheck(pv, po) == FALSE

\* main's flag check (line 311)
MainRejects(pv, po) == pv /\ ~po

\* variant of Route: the flag is tested without the extension
Route_FlagFirst(e, pv, po) ==
    IF pv
    THEN IF ~po THEN "reject" ELSE "vector"
    ELSE IF Lower(e) = "pdf" THEN "rasterize" ELSE "decode"

\* the dispatch of resize_and_save (lines 203-219)
Route(e, pv, po) ==
    IF Lower(e) = "pdf" /\ pv
    THEN IF ~po THEN "reject" ELSE "vector"
    ELSE IF Lower(e) = "pdf" THEN "rasterize" ELSE "decode"

\* variant of AfterProcessPdf: the None check is left out
AfterProcessPdf_NoCheck(im) == "continue"

\* what resize_and_save does with process_pdf's result (lines 216-218)
AfterProcessPdf(im) == IF im = NoImage THEN "fail" ELSE "continue"

\* mode conversion (lines 228-233)
ConvertMode(im) ==
    IF im.mode = "RGBA"
    THEN [im EXCEPT !.mode = "RGB", !.content.converted = "flattened"]
    ELSE IF im.mode # "RGB"
    THEN [im EXCEPT !.mode = "RGB", !.content.converted = "converted"]
    ELSE im

\* variant of ScaledSize: the two assignments of each branch are swapped
ScaledSize_Swapped(w, h) ==
    IF w > h THEN <<(Target * h) \div w, Target>>
             ELSE <<Target, (Target * w) \div h>>

\* variant of ScaledSize: the image is fitted into a square one pixel short
ScaledSize_Short(w, h) ==
    IF w > h THEN <<Target - 1, ((Target - 1) * h) \div w>>
             ELSE <<((Target - 1) * w) \div h, Target - 1>>

\* new_width, new_height (lines 237-243); int() of a non-negative quotient
\* truncates, i.e. is the integer quotient
ScaledSize(w, h) ==
    IF w > h THEN <<Target, (Target * h) \div w>>
             ELSE <<(Target * w) \div h, Target>>

\* variant of Offset: the division by two is left out
Offset_NoHalving(s) == <<Target - s[1], Target - s[2]>>

\* paste offset (line 252)
Offset(s) == <<(Target - s[1]) \div 2, (Target - s[2]) \div 2>>

\* Image.resize (line 249): a resize to the image's own size is a copy
Resize(im, s) ==
    IF s = <<im.width, im.height>> THEN im
    ELSE [im EXCEPT !.width = s[1], !.height = s[2], !.content.resampled = TRUE]

\* white 1200x1200 canvas with im pasted at off (lines 246, 253)
Paste(im, off) ==
    [width |-> Target, height |-> Target, mode |-> "RGB",
     content |-> IF off = <<0, 0>> /\ im.width = Target /\ im.height = Target
                 THEN im.content
                 ELSE [im.content EXCEPT !.padded = TRUE]]

\* the whole normalizer (lines 227-253)
NormalizeImage(im) ==
    LET c == ConvertMode(im)
        s == ScaledSize(c.width, c.height)
    IN  Paste(Resize(c, s), Offset(s))

\* variant of WritesTiffPng: pdf_only is not consulted
WritesTiffPng_Always(po) == TRUE

\* TIFF and PNG are written unless pdf_only (line 264)
WritesTiffPng(po) == ~po

(* ---------------- initial state ---------------- *)
Init ==
    /\ entry \in {"main", "direct"}
    /\ input_ext \in Exts
    /\ preserve_vector \in BOOLEAN
    /\ pdf_only \in BOOLEAN
    /\ file_exists \in BOOLEAN
    /\ pdf2image_available \in BOOLEAN
    /\ pc = IF entry = "main" THEN "main" ELSE "rs_entry"
    /\ pages = 0
    /\ src_img = NoImage
    /\ img = NoImage
    /\ new_size = <<0, 0>>
    /\ offset = <<0, 0>>
    /\ resized_img = NoImage
    /\ files = [k \in OutKinds |-> "absent"]
    /\ temps = {}
    /\ calls = {}
    /\ result = "none"
    /\ exit_code = <<>>

(* ---------------- control-flow helpers ---------------- *)
\* resize_and_save returns res to its caller
Return(res) ==
    /\ result' = res
    /\ pc' = IF entry = "main" THEN "main_result" ELSE "done"

\* an exception leaves resize_and_save; main has no handler either
Escape ==
    /\ pc' = "crashed"
    /\ UNCHANGED result

\* a write that raises may or may not have created the file
FailedWrite(k) ==
    \E st \in {files[k], "partial"} : files' = [files EXCEPT ![k] = st]

(* ---------------- main ---------------- *)
\* lines 310-314
MainCheckFlags ==
    /\ pc = "main"
    /\ IF MainRejects(preserve_vector, pdf_only)
       THEN pc' = "done" /\ exit_code' = <<1>>
       ELSE pc' = "main_isfile" /\ UNCHANGED exit_code
    /\ UNCHANGED <<inputs, pages, src_img, img, new_size, offset, resized_img,
                   files, temps, calls, result>>

\* lines 316-319
MainCheckFile ==
    /\ pc = "main_isfile"
    /\ IF ~file_exists
       THEN pc' = "done" /\ exit_code' = <<1>>
       ELSE pc' = "rs_entry" /\ UNCHANGED exit_code
    /\ UNCHANGED <<inputs, pages, src_img, img, new_size, offset, resized_img,
                   files, temps, calls, result>>

\* lines 322-327
MainResult ==
    /\ pc = "main_result"
    /\ exit_code' = IF result = "true" THEN <<0>> ELSE <<1>>
    /\ pc' = "done"
    /\ UNCHANGED <<inputs, pages, src_img, img, new_size, offset, resized_img,
                   files, temps, calls, result>>

(* ---------------- resize_and_save: dispatch and decode ---------------- *)
\* lines 198-219
RsDispatch ==
    /\ pc = "rs_entry"
    /\ LET r == Route(input_ext, preserve_vector, pdf_only) IN
         CASE r = "reject"    -> Return("false") /\ UNCHANGED calls
           [] r = "vector"    -> /\ pc' = "pv_read"
                                 /\ calls' = calls \cup {"repositioner"}
                                 /\ UNCHANGED result
           [] r = "rasterize" -> /\ pc' = "pp_primary"
                                 /\ calls' = calls \cup {"rasterizer"}
                                 /\ UNCHANGED result
           [] OTHER           -> /\ pc' = "rs_open"
                                 /\ UNCHANGED <<calls, result>>
    /\ UNCHANGED <<inputs, pages, src_img, img, new_size, offset, resized_img,
                   files, temps, exit_code>>

\* lines 220-225
RsOpen ==
    /\ pc = "rs_open"
    /\ calls' = calls \cup {"decoder"}
    /\ \/ /\ Return("false")
          /\ UNCHANGED <<img, src_img>>
       \/ /\ file_exists
          /\ \E im \in Images : img' = im /\ src_img' = im
          /\ pc' = "rs_mode"
          /\ UNCHANGED result
    /\ UNCHANGED <<inputs, pages, new_size, offset, resized_img,
                   files, temps, exit_code>>

(* ---------------- process_pdf ---------------- *)
\* process_pdf returns im (NoImage is None) to resize_and_save
PpReturn(im) ==
    /\ img' = im
    /\ src_img' = im
    /\ pc' = "rs_pdfcheck"

\* lines 145-154: the primary renderer
PpPrimary ==
    /\ pc = "pp_primary"
    /\ IF pdf2image_available
       THEN \/ /\ file_exists
               /\ \E im \in Images : PpReturn(im)
            \/ /\ pc' = "pp_temp"          \* raised, or returned no image
               /\ UNCHANGED <<img, src_img>>
       ELSE /\ pc' = "pp_temp"
            /\ UNCHANGED <<img, src_img>>
    /\ UNCHANGED <<inputs, pages, new_size, offset, resized_img,
                   files, temps, calls, result, exit_code>>

\* lines 157-161: the intermediate file is created
PpTemp ==
    /\ pc = "pp_temp"
    /\ \/ /\ temps' = temps \cup {"intermediate"}
          /\ pc' = "pp_extract"
          /\ UNCHANGED <<img, src_img>>
       \/ /\ PpReturn(NoImage)              \* NamedTemporaryFile raised
          /\ UNCHANGED temps
    /\ UNCHANGED <<inputs, pages, new_size, offset, resized_img,
                   files, calls, result, exit_code>>

\* lines 163-169: page 1 is copied into the intermediate file
PpExtract ==
    /\ pc = "pp_extract"
    /\ \/ /\ file_exists
          /\ \E n \in 0..MaxPages : pages' = n
          /\ pc' = "pp_convert"
          /\ UNCHANGED <<img, src_img>>
       \/ /\ PpReturn(NoImage)              \* PdfReader or the write raised
          /\ UNCHANGED pages
    /\ UNCHANGED <<inputs, new_size, offset, resized_img,
                   files, temps, calls, result, exit_code>>

\* lines 171-192: the intermediate is rasterized, or the user is told how to
\* install the renderer
PpConvert ==
    /\ pc = "pp_convert"
    /\ IF pdf2image_available
       THEN \/ /\ pages > 0                 \* images non-empty: lines 174-177
               /\ \E im \in Images : PpReturn(im)
               /\ temps' = temps \ {"intermediate"}
            \/ /\ PpReturn(NoImage)         \* images empty: line 188
               /\ temps' = temps \ {"intermediate"}
            \/ /\ PpReturn(NoImage)         \* convert_from_path raised: 189
               /\ UNCHANGED temps
       ELSE /\ PpReturn(NoImage)            \* lines 178-188
            /\ temps' = temps \ {"intermediate"}
    /\ UNCHANGED <<inputs, pages, new_size, offset, resized_img,
                   files, calls, result, exit_code>>

\* lines 215-218
RsPdfCheck ==
    /\ pc = "rs_pdfcheck"
    /\ IF AfterProcessPdf(img) = "fail"
       THEN Return("false")
       ELSE pc' = "rs_mode" /\ UNCHANGED result
    /\ UNCHANGED <<inputs, pages, src_img, img, new_size, offset, resized_img,
                   files, temps, calls, exit_code>>

(* ---------------- resize_and_save: normalizer ---------------- *)
\* lines 227-233
RsMode ==
    /\ pc = "rs_mode"
    /\ calls' = calls \cup {"normalizer"}
    /\ IF img = NoImage
       THEN Escape /\ UNCHANGED img          \* None has no attribute mode
       ELSE \/ /\ img' = ConvertMode(img)
               /\ pc' = "rs_scale"
               /\ UNCHANGED result
            \/ /\ img.mode # "RGB"           \* Image.new/paste/convert raised
               /\ Escape
               /\ UNCHANGED img
    /\ UNCHANGED <<inputs, pages, src_img, new_size, offset, resized_img,
                   files, temps, exit_code>>

\* lines 237-243
RsScale ==
    /\ pc = "rs_scale"
    /\ new_size' = ScaledSize(img.width, img.height)
    /\ pc' = "rs_resize"
    /\ UNCHANGED <<inputs, pages, src_img, img, offset, resized_img,
                   files, temps, calls, result, exit_code>>

\* lines 246-249
RsResize ==
    /\ pc = "rs_resize"
    /\ \/ /\ img' = Resize(img, new_size)
          /\ pc' = "rs_paste"
          /\ UNCHANGED result
       \/ /\ Escape                          \* Image.new or resize raised
          /\ UNCHANGED img
    /\ UNCHANGED <<inputs, pages, src_img, new_size, offset, resized_img,
                   files, temps, calls, exit_code>>

\* lines 252-253
RsPaste ==
    /\ pc = "rs_paste"
    /\ offset' = Offset(new_size)
    /\ \/ /\ resized_img' = Paste(img, Offset(new_size))
          /\ pc' = "rs_tiff"
          /\ UNCHANGED result
       \/ /\ Escape                          \* paste raised
          /\ UNCHANGED resized_img
    /\ UNCHANGED <<inputs, pages, src_img, img, new_size,
                   files, temps, calls, exit_code>>

(* ---------------- resize_and_save: writer ---------------- *)
\* lines 264-271
RsSaveTiff ==
    /\ pc = "rs_tiff"
    /\ calls' = calls \cup {"writer"}
    /\ IF WritesTiffPng(pdf_only)
       THEN \/ /\ files' = [files EXCEPT !["tiff"] = "complete"]
               /\ pc' = "rs_png"
               /\ UNCHANGED result
            \/ /\ FailedWrite("tiff")
               /\ Escape
       ELSE /\ pc' = "rs_pdf"
            /\ UNCHANGED <<files, result>>
    /\ UNCHANGED <<inputs, pages, src_img, img, new_size, offset, resized_img,
                   temps, exit_code>>

\* lines 273-279
RsSavePng ==
    /\ pc = "rs_png"
    /\ \/ /\ files' = [files EXCEPT !["png"] = "complete"]
          /\ pc' = "rs_pdf"
          /\ UNCHANGED result
       \/ /\ FailedWrite("png")
          /\ Escape
    /\ UNCHANGED <<inputs, pages, src_img, img, new_size, offset, resized_img,
                   temps, calls, exit_code>>

\* lines 281-296
RsSavePdf ==
    /\ pc = "rs_pdf"
    /\ \/ /\ files' = [files EXCEPT !["pdf"] = "complete"]
          /\ Return("true")
       \/ /\ FailedWrite("pdf")
          /\ Escape
    /\ UNCHANGED <<inputs, pages, src_img, img, new_size, offset, resized_img,
                   temps, calls, exit_code>>

(* ---------------- process_pdf_preserve_vector ---------------- *)
\* lines 61-70: the input is read; a PDF without pages is refused
PvRead ==
    /\ pc = "pv_read"
    /\ \/ /\ file_exists
          /\ \E n \in 0..MaxPages :
               /\ pages' = n
               /\ IF n = 0 THEN Return("false")
                           ELSE pc' = "pv_geometry" /\ UNCHANGED result
       \/ /\ Return("false")                 \* PdfReader raised: 137-139
          /\ UNCHANGED pages
    /\ UNCHANGED <<inputs, src_img, img, new_size, offset, resized_img,
                   files, temps, calls, exit_code>>

\* lines 72-96: media box, scale and offsets
PvGeometry ==
    /\ pc = "pv_geometry"
    /\ \/ pc' = "pv_temp" /\ UNCHANGED result
       \/ Return("false")                    \* e.g. a media box of height 0
    /\ UNCHANGED <<inputs, pages, src_img, img, new_size, offset, resized_img,
                   files, temps, calls, exit_code>>

\* lines 100-101: the blank page's file is created
PvTemp ==
    /\ pc = "pv_temp"
    /\ \/ /\ temps' = temps \cup {"blank"}
          /\ pc' = "pv_merge"
          /\ UNCHANGED result
       \/ /\ Return("false")
          /\ UNCHANGED temps
    /\ UNCHANGED <<inputs, pages, src_img, img, new_size, offset, resized_img,
                   files, calls, exit_code>>

\* lines 102-121: the blank page is drawn, read back and merged with page 1
PvMerge ==
    /\ pc = "pv_merge"
    /\ \/ pc' = "pv_write" /\ UNCHANGED result
       \/ Return("false")                    \* caught at 137-139
    /\ UNCHANGED <<inputs, pages, src_img, img, new_size, offset, resized_img,
                   files, temps, calls, exit_code>>

\* lines 123-139: the output is written, then the blank page's file removed
PvWrite ==
    /\ pc = "pv_write"
    /\ \/ /\ files' = [files EXCEPT !["pdf"] = "complete"]
          /\ temps' = temps \ {"blank"}
          /\ Return("true")
       \/ /\ FailedWrite("pdf")
          /\ Return("false")
          /\ UNCHANGED temps
    /\ UNCHANGED <<inputs, pages, src_img, img, new_size, offset, resized_img,
                   calls, exit_code>>

Next ==
    \/ MainCheckFlags
    \/ MainCheckFile
    \/ MainResult
    \/ RsDispatch
    \/ RsOpen
    \/ PpPrimary
    \/ PpTemp
    \/ PpExtract
    \/ PpConvert
    \/ RsPdfCheck
    \/ RsMode
    \/ RsScale
    \/ RsResize
    \/ RsPaste
    \/ RsSaveTiff
    \/ RsSavePng
    \/ RsSavePdf
    \/ PvRead
    \/ PvGeometry
    \/ PvTemp
    \/ PvMerge
    \/ PvWrite

Spec == Init /\ [][Next]_vars

(* ======================= properties ======================= *)
Absent == \A k \in OutKinds : files[k] = "absent"
Written == {k \in OutKinds : files[k] # "absent"}
Complete == {k \in OutKinds : files[k] = "complete"}
Requested == IF pdf_only THEN {"pdf"} ELSE OutKinds
IsPdf == Lower(input_ext) = "pdf"
InTempScope == pc \in {"pp_extract", "pp_convert", "pv_merge", "pv_write"}
Scaled == new_size # <<0, 0>>
Pasted == resized_img # NoImage
SrcW == src_img.width
SrcH == src_img.height
Trail(i) == Target - new_size[i] - offset[i]

\* C1: a run of main with --preserve-vector and without --pdf-only ends with
\* exit code 1, whatever the extension and whether or not the file exists,
\* having created no output file and no temporary file and invoked no
\* component; a direct call of resize_and_save on a .pdf with
\* preserve_vector and without pdf_only returns failure without invoking the
\* rasterizer, the repositioner, the normalizer or the writer.
C1_RejectsVectorWithoutPdfOnly ==
    /\ (entry = "main" /\ preserve_vector /\ ~pdf_only) =>
          /\ pc \in {"main", "done"}
          /\ pc = "done" => exit_code = <<1>>
          /\ Absent /\ temps = {} /\ calls = {} /\ result = "none"
    /\ (entry = "direct" /\ IsPdf /\ preserve_vector /\ ~pdf_only) =>
          /\ pc \in {"rs_entry", "done"}
          /\ pc = "done" => result = "false"
          /\ Absent /\ temps = {} /\ calls = {}

C1_Witness ==
    /\ entry = "main" /\ preserve_vector /\ ~pdf_only
    /\ input_ext = "png" /\ file_exists
    /\ pc = "done" /\ exit_code = <<1>>

\* C2 (as claimed): no exception escapes resize_and_save or main, and every
\* finished run of main has returned exit code 0 or 1.
C2_NoExceptionEscapes ==
    /\ pc # "crashed"
    /\ (pc = "done" /\ entry = "main") => exit_code \in {<<0>>, <<1>>}

\* C3 (as claimed): once process_pdf or process_pdf_preserve_vector has
\* returned, no temporary file it created is left on disk.
C3_TempFilesDeleted == ~InTempScope => temps = {}

\* C4: without the renderer, a .pdf processed without preserve_vector never
\* yields an image: process_pdf returns None, neither the normalizer nor the
\* writer runs, no output file is created, nothing escapes, and the run ends
\* in failure (exit code 1 under main).
C4_RendererUnavailableFails ==
    (~pdf2image_available /\ IsPdf /\ ~preserve_vector) =>
        /\ img = NoImage /\ resized_img = NoImage
        /\ Absent
        /\ calls \subseteq {"rasterizer"}
        /\ pc # "crashed"
        /\ result # "true"
        /\ pc = "done" =>
              /\ entry = "main" => exit_code = <<1>>
              /\ entry = "direct" => result = "false"

C4_Witness ==
    /\ ~pdf2image_available /\ IsPdf /\ ~preserve_vector
    /\ entry = "main" /\ file_exists
    /\ "rasterizer" \in calls
    /\ pc = "done" /\ exit_code = <<1>> /\ result = "false"

\* C5: no output file is ever created that was not requested; a run that
\* succeeds (result True, exit code 0) has written every requested file
\* completely: {pdf} with pdf_only, {tiff, png, pdf} otherwise; on the
\* vector path only the PDF is written and the rasterizer, the normalizer
\* and the writer are never invoked.
C5_ExactlyRequestedArtifacts ==
    /\ Written \subseteq Requested
    /\ (result = "true" \/ exit_code = <<0>>) => Complete = Requested
    /\ exit_code = <<0>> => result = "true"
    /\ (IsPdf /\ preserve_vector /\ pdf_only) =>
          /\ Written \subseteq {"pdf"}
          /\ calls \subseteq {"repositioner"}
          /\ img = NoImage /\ resized_img = NoImage

C5_Witness ==
    /\ entry = "main" /\ pdf_only /\ ~preserve_vector
    /\ "writer" \in calls
    /\ pc = "done" /\ exit_code = <<0>>
    /\ Complete = {"pdf"}

\* C6 (as claimed): the longer side is scaled to exactly 1200 and the other
\* side to round(1200 * min(w,h) / max(w,h)).
C6_OtherSideRounded ==
    Scaled =>
        /\ (SrcW >= SrcH) => /\ new_size[1] = Target
                             /\ new_size[2] = Round(Target * SrcH, SrcW)
        /\ (SrcH >= SrcW) => /\ new_size[2] = Target
                             /\ new_size[1] = Round(Target * SrcW, SrcH)

\* C6 (amended): the longer side is scaled to exactly 1200 and the other
\* side to floor(1200 * min(w,h) / max(w,h)), which is round(...) or one
\* pixel less; a 400x800 bitmap is scaled to 600x1200.
C6_OtherSideTruncated ==
    Scaled =>
        /\ (SrcW >= SrcH) => /\ new_size[1] = Target
                             /\ new_size[2] = (Target * SrcH) \div SrcW
        /\ (SrcH >= SrcW) => /\ new_size[2] = Target
                             /\ new_size[1] = (Target * SrcW) \div SrcH
        /\ Max(new_size[1], new_size[2]) = Target
        /\ Min(new_size[1], new_size[2])
              \in { Round(Target * Min(SrcW, SrcH), Max(SrcW, SrcH)),
                    Round(Target * Min(SrcW, SrcH), Max(SrcW, SrcH)) - 1 }
        /\ (SrcW = 400 /\ SrcH = 800) => new_size = <<600, 1200>>

C6_Witness ==
    /\ SrcW = 400 /\ SrcH = 800
    /\ pc = "rs_resize"
    /\ new_size = <<600, 1200>>

\* C7: the canvas is exactly 1200x1200 and the scaled image is centred in
\* it: on each axis the leading offset is (1200 - scaled) // 2, leading and
\* trailing padding are >= 0, add up with the scaled length to 1200 and
\* differ by at most 1; a 400x800 bitmap gets 300px left and right and 0
\* above and below.
C7_CanvasCentred ==
    Pasted =>
        /\ resized_img.width = Target /\ resized_img.height = Target
        /\ \A i \in {1, 2} :
              /\ offset[i] >= 0 /\ Trail(i) >= 0
              /\ offset[i] + new_size[i] + Trail(i) = Target
              /\ Trail(i) - offset[i] \in {0, 1}
              /\ 2 * offset[i] \in {Target - new_size[i], Target - new_size[i] - 1}
        /\ (SrcW = 400 /\ SrcH = 800) =>
              /\ offset = <<300, 0>>
              /\ Trail(1) = 300 /\ Trail(2) = 0

C7_Witness ==
    /\ Pasted
    /\ SrcW = 400 /\ SrcH = 800
    /\ offset = <<300, 0>>

\* C8: normalizing a 1200x1200 RGB bitmap computes scaled size 1200x1200
\* and offset (0,0) and yields a canvas equal to the input; hence the
\* normalizer maps every canvas it produces to itself.
C8_NormalizeIdempotent ==
    /\ (Pasted /\ SrcW = Target /\ SrcH = Target /\ src_img.mode = "RGB") =>
          /\ new_size = <<Target, Target>>
          /\ offset = <<0, 0>>
          /\ img = src_img
          /\ resized_img = src_img
    /\ Pasted => NormalizeImage(resized_img) = resized_img

C8_Witness ==
    /\ Pasted
    /\ SrcW = Target /\ SrcH = Target /\ src_img.mode = "RGB"
    /\ resized_img = src_img

\* C9 (as claimed): both scaled dimensions lie in 1..1200 for every bitmap
\* with w >= 1 and h >= 1.
C9_ScaledSizePositive ==
    Scaled => /\ new_size[1] \in 1..Target
              /\ new_size[2] \in 1..Target

\* C10: for an input that is not a .pdf the dispatch of resize_and_save does
\* not depend on preserve_vector: with either value it routes to decode, the
\* repositioner and the rasterizer are never invoked, and the files written
\* and the result are those the raster path produces for pdf_only alone.
C10_FlagIgnoredForNonPdf ==
    ~IsPdf =>
        /\ Route(input_ext, TRUE, pdf_only) = Route(input_ext, FALSE, pdf_only)
        /\ Route(input_ext, preserve_vector, pdf_only) = "decode"
        /\ calls \subseteq {"decoder", "normalizer", "writer"}
        /\ pc \notin {"pv_read", "pv_geometry", "pv_temp", "pv_merge",
                      "pv_write", "pp_primary", "pp_temp", "pp_extract",
                      "pp_convert", "rs_pdfcheck"}
        /\ temps = {}
        /\ Written \subseteq Requested
        /\ result = "true" => Complete = Requested
        /\ (pc = "done" /\ result = "none") => entry = "main"

C10_Witness ==
    /\ ~IsPdf /\ preserve_vector /\ ~pdf_only
    /\ entry = "direct"
    /\ pc = "done" /\ result = "true"
    /\ Complete = OutKinds
====
